---- MODULE Spec2Model ----
(***************************************************************************)
(* A model of the EdgeX SDK usage examples: the EdgeXTrader class of       *)
(* advanced_usage.py running on one cooperative asyncio event loop, and    *)
(* the three test-runner scripts.                                          *)
(*                                                                         *)
(* The SDK (Client, WebSocketManager) is the environment: every awaited    *)
(* SDK call either raises or returns a response, drawn from small sets.    *)
(* A step of a task runs from one suspend point (an awaited SDK call) to   *)
(* the next, atomically, as on a cooperative loop.  Push-message handlers  *)
(* are synchronous and run between such steps.                             *)
(***************************************************************************)
EXTENDS Integers, Sequences, FiniteSets, TLC

\* ------------------------------------------------------------------ bounds
\* longest list carried by a response (data.list, contractList, positionList)
MaxList == 2
\* background refresh tasks created by order push notifications
MaxTasks == 1
\* operations the driver invokes on the trader
MaxCalls == 2
\* a wrapped test process ends with a return code of 0..MaxReturnCode, or is
\* killed by a signal 1..MaxSignal (subprocess reports -signal)
MaxReturnCode == 3
MaxSignal == 2
\* failures and errors a unittest run can count
MaxFailures == 256
MaxErrors == 1

\* ------------------------------------------------------- Python values
None == "None"
EmptyDict == [k \in {} |-> k]

\* d[k] = v on a dict
Put(d, k, v) == [x \in (DOMAIN d) \cup {k} |-> IF x = k THEN v ELSE d[x]]

\* `if x:` on an identifier or error parameter (None and "" are falsy)
Truthy(x) == x # None /\ x # ""

\* An exception object: its class, the message prefix and the detail
\* interpolated into the message.
Exc(type, msg, detail) == [type |-> type, msg |-> msg, detail |-> detail]
NoExc == Exc("-", "-", "-")
\* whatever an awaited SDK call raises
SdkError(api) == Exc("Exception", api, "-")
\* None.get(...) / item.get(...) on something that is no dict
AttributeError == Exc("AttributeError", "object has no attribute 'get'", "-")
\* for x in None
TypeError == Exc("TypeError", "object is not iterable", "-")
\* json.loads on a malformed message
JSONDecodeError == Exc("JSONDecodeError", "json.loads", "-")

\* logger.error(f"<msg>: {str(e)}")
LogEntry(msg, e) == [msg |-> msg, exc |-> e]

\* ------------------------------------------------------- SDK responses
\* The "data" member of a response: absent, null, or a dict whose list
\* member ("list", "contractList" or "positionList", by endpoint) is null
\* or a list.
Data(tag, list) == [tag |-> tag, list |-> list]
NoData == Data("absent", <<>>)
Resp(code, errorParam, data) == [code |-> code, errorParam |-> errorParam, data |-> data]
NoResp == Resp("-", None, NoData)

\* entries of data.list of get_active_orders; NotADict is a list entry that
\* is no dict.  An order without orderId has orderId "".
Orders ==
  { [orderId |-> "", px |-> "p1"], [orderId |-> "o1", px |-> "p1"],
    [orderId |-> "o2", px |-> "p1"] }
NotADict == [orderId |-> "<not a dict>", px |-> "-"]
\* entries of positionList and contractList
Positions == { [contractId |-> ""], [contractId |-> "c1"], [contractId |-> "c2"] }
Contracts == { [contractId |-> ""], [contractId |-> "c1"], [contractId |-> "c2"] }
NotADictC == [contractId |-> "<not a dict>"]

SeqsUpTo(S, n) == UNION { [1..k -> S] : k \in 0..n }

\* A business failure carries no usable data: the member is absent or null.
FailResps(datas) ==
  { Resp("FAIL", p, d) : p \in {None, "E1"}, d \in datas }
ListResps(S) ==
  { Resp("SUCCESS", None, Data("dict", l)) : l \in SeqsUpTo(S, MaxList) }
    \cup { Resp("SUCCESS", None, Data("nulllist", <<>>)) }
    \cup FailResps({NoData, Data("null", <<>>)})
\* responses whose data the trader only logs
PlainResps == { Resp("SUCCESS", None, NoData) } \cup FailResps({NoData})

\* What `await self.client.<api>(...)` produces: an exception or a response.
Raised(api) == [raised |-> TRUE, resp |-> NoResp, exc |-> SdkError(api)]
Returned(r) == [raised |-> FALSE, resp |-> r, exc |-> NoExc]
Outcomes(api, resps) == { Raised(api) } \cup { Returned(r) : r \in resps }

\* ------------------------------------------------------------- state
VARIABLES
  metadata,       \* self.metadata: None (NoResp) or the get_metadata response
  contracts,      \* self.contracts: contractId -> contract
  market_data,    \* self.market_data
  active_orders,  \* self.active_orders: orderId -> order
  positions,      \* self.positions: contractId -> position
  assets,         \* self.assets
  ws,             \* the WebSocketManager: connections made, callbacks registered
  main,           \* the coroutine the driver runs: operation, suspend point, result
  bg,             \* the tasks made by asyncio.create_task in handle_order_update
  inflight,       \* SDK requests issued and not yet answered: {[task, api]}
  hlog,           \* what the last push handler logged as errors
  calls,          \* operations invoked so far
  runner,         \* a test-runner script: the process running it
  wsrun,          \* the last run of initialize_websocket: calls attempted, value returned
  prog            \* main(): where it is, and whether it called trader.close()

vars == << metadata, contracts, market_data, active_orders, positions, assets,
           ws, main, bg, inflight, hlog, calls, runner, wsrun, prog >>

fields == << metadata, contracts, market_data, active_orders, positions, assets >>

\* The task of the driver is 0; the background tasks are 1..MaxTasks.
Tasks == 1..MaxTasks
Req(t, api) == [task |-> t, api |-> api]

\* `await self.client.<api>(...)`: the request is issued and the task suspends
Await(infl, t, api) == infl \cup {Req(t, api)}
\* the call is not awaited: its request stays in flight while the task goes on
Resume_StillInFlight(infl, t, api) == infl

\* the awaited call completes and the task resumes
Resume(infl, t, api) == infl \ {Req(t, api)}

\* how an operation of the driver ended
Ret(kind, resp, exc) == [kind |-> kind, resp |-> resp, exc |-> exc]
NoRet == Ret("none", NoResp, NoExc)
ReturnBool(b) == Ret(IF b THEN "True" ELSE "False", NoResp, NoExc)
ReturnResult(r) == Ret("result", r, NoExc)
Raise(e) == Ret("raise", NoResp, e)

\* ---------------------------------------------- update_active_orders
\* the loop of lines 128-131; it stops where an entry raises
RECURSIVE FillActiveOrders(_, _)
FillActiveOrders(m, order_list) ==
  IF order_list = << >> THEN [map |-> m, raised |-> FALSE]
  ELSE LET order == Head(order_list) IN
       IF order = NotADict THEN [map |-> m, raised |-> TRUE]
       ELSE FillActiveOrders(
              IF Truthy(order.orderId) THEN Put(m, order.orderId, order) ELSE m,
              Tail(order_list))

UpdLog(e) == << LogEntry("Failed to update active orders", e) >>

\* update_active_orders swallowing what get_active_orders raises without a log
UpdateActiveOrders_Silent(ao, out) ==
  IF out.raised
    THEN [active_orders |-> ao, ok |-> FALSE, log |-> << >>]
  ELSE IF out.resp.data.tag = "null"
    THEN [active_orders |-> ao, ok |-> FALSE, log |-> UpdLog(AttributeError)]
  ELSE IF out.resp.data.tag = "nulllist"
    THEN [active_orders |-> EmptyDict, ok |-> FALSE, log |-> UpdLog(TypeError)]
  ELSE LET order_list == IF out.resp.data.tag = "absent" THEN << >>
                         ELSE out.resp.data.list
           f == FillActiveOrders(EmptyDict, order_list)
       IN IF f.raised
            THEN [active_orders |-> f.map, ok |-> FALSE, log |-> UpdLog(AttributeError)]
            ELSE [active_orders |-> f.map, ok |-> TRUE, log |-> << >>]

\* The body of update_active_orders from the point where the awaited
\* get_active_orders produced `out`: the new self.active_orders, the value
\* returned and the errors logged.
UpdateActiveOrders(ao, out) ==
  IF out.raised
    THEN [active_orders |-> ao, ok |-> FALSE, log |-> UpdLog(out.exc)]
  ELSE IF out.resp.data.tag = "null"
    \* None.get("list", []) raises before the map is reset
    THEN [active_orders |-> ao, ok |-> FALSE, log |-> UpdLog(AttributeError)]
  ELSE IF out.resp.data.tag = "nulllist"
    \* the map is reset, then `for order in None` raises
    THEN [active_orders |-> EmptyDict, ok |-> FALSE, log |-> UpdLog(TypeError)]
  ELSE LET order_list == IF out.resp.data.tag = "absent" THEN << >>
                         ELSE out.resp.data.list
           f == FillActiveOrders(EmptyDict, order_list)
       IN IF f.raised
            THEN [active_orders |-> f.map, ok |-> FALSE, log |-> UpdLog(AttributeError)]
            ELSE [active_orders |-> f.map, ok |-> TRUE, log |-> << >>]

ActiveOrdersOutcomes == Outcomes("get_active_orders", ListResps(Orders \cup {NotADict}))

\* ------------------------------------------------ the driver's coroutine
\* op: the operation invoked last ("-": none yet); pc: the SDK call it is
\* suspended in ("-": it has ended); held: the local `result` of a mutation
\* path; contract_list, position_list: the locals of initialize; ret: how the
\* operation ended; trace: the SDK calls it issued; log: the errors it logged.
Main(op, pc, held, ret, trace, log) ==
  [op |-> op, pc |-> pc, held |-> held, contract_list |-> << >>,
   position_list |-> << >>, ret |-> ret, trace |-> trace, log |-> log]

Idle == main.pc = "-"

\* the three order mutation paths and the three query paths
MutationOps == {"create_limit_order", "cancel_order", "cancel_all_orders"}
QueryOps == {"get_order_fill_transactions", "get_k_line", "get_order_book_depth"}
Ops == {"initialize", "update_active_orders"} \cup MutationOps \cup QueryOps

\* the SDK call an operation awaits first
FirstApi(o) ==
  CASE o = "initialize" -> "get_metadata"
    [] o = "update_active_orders" -> "get_active_orders"
    [] o = "create_limit_order" -> "create_order"
    [] o \in {"cancel_order", "cancel_all_orders"} -> "cancel_order"
    [] OTHER -> o

\* the text of the ValueError an operation raises on a business failure
FailText(o) ==
  CASE o = "create_limit_order" -> "Failed to create order"
    [] o = "cancel_order" -> "Failed to cancel order"
    [] o = "cancel_all_orders" -> "Failed to cancel orders"
    [] o = "get_order_fill_transactions" -> "Failed to get order fill transactions"
    [] o = "get_k_line" -> "Failed to get K-line data"
    [] OTHER -> "Failed to get order book depth"

\* the text an operation's except clause logs
LogText(o) ==
  CASE o = "create_limit_order" -> "Failed to create limit order"
    [] o = "cancel_all_orders" -> "Failed to cancel all orders"
    [] o = "initialize" -> "Failed to initialize trader"
    [] o = "update_active_orders" -> "Failed to update active orders"
    [] OTHER -> FailText(o)

\* the check of the code left out
Succeeded_Always(result) == TRUE

\* `if result.get("code") != "SUCCESS"` fails
Succeeded(result) == result.code = "SUCCESS"

\* the ValueError raised for a response that is not a success
ValueErrorOf(o, result) ==
  IF Truthy(result.errorParam)
    THEN Exc("ValueError", FailText(o), result.errorParam)
    ELSE Exc("ValueError", FailText(o), result.code)

\* `except Exception as e: logger.error(...); raise`
LogAndRaise(o, e) == [next |-> "-", ret |-> Raise(e), log |-> << LogEntry(LogText(o), e) >>]

\* a mutation path that issues its call again when the call raised
MutationStep_Retry(o, out) ==
  IF out.raised THEN [next |-> FirstApi(o), ret |-> NoRet, log |-> << LogEntry(LogText(o), out.exc) >>]
  ELSE IF ~Succeeded(out.resp) THEN LogAndRaise(o, ValueErrorOf(o, out.resp))
  ELSE [next |-> "get_active_orders", ret |-> NoRet, log |-> << >>]

\* a query path that returns False where it should raise again
QueryStep_ReturnsFalse(o, out) ==
  IF out.raised
    THEN [next |-> "-", ret |-> ReturnBool(FALSE), log |-> << LogEntry(LogText(o), out.exc) >>]
  ELSE IF ~Succeeded(out.resp)
    THEN [next |-> "-", ret |-> ReturnBool(FALSE),
          log |-> << LogEntry(LogText(o), ValueErrorOf(o, out.resp)) >>]
  ELSE [next |-> "-", ret |-> ReturnResult(out.resp), log |-> << >>]

\* What an operation does when the call it awaits first completes with
\* `out`: the call it awaits next ("-" when it ends), how it ends, and what
\* it logs.
\* create_limit_order, cancel_order, cancel_all_orders
MutationStep(o, out) ==
  IF out.raised THEN LogAndRaise(o, out.exc)
  ELSE IF ~Succeeded(out.resp) THEN LogAndRaise(o, ValueErrorOf(o, out.resp))
  ELSE [next |-> "get_active_orders", ret |-> NoRet, log |-> << >>]

\* get_order_fill_transactions, get_k_line, get_order_book_depth
QueryStep(o, out) ==
  IF out.raised THEN LogAndRaise(o, out.exc)
  ELSE IF ~Succeeded(out.resp) THEN LogAndRaise(o, ValueErrorOf(o, out.resp))
  ELSE [next |-> "-", ret |-> ReturnResult(out.resp), log |-> << >>]

\* the operation ends
Finish(m, ret, log) == [m EXCEPT !.pc = "-", !.held = NoResp, !.contract_list = << >>,
                                 !.position_list = << >>, !.ret = ret, !.log = @ \o log]
\* the operation goes on to await `api`
GoOn(m, api, log) == [m EXCEPT !.pc = api, !.trace = Append(@, api), !.log = @ \o log]

Awaiting(o, api) == main.op = o /\ main.pc = api /\ Req(0, api) \in inflight

\* ------------------------------------------------------------ initialize
\* the loop of lines 83-86 over contractList
RECURSIVE FillContracts(_, _)
FillContracts(m, contract_list) ==
  IF contract_list = << >> THEN [map |-> m, raised |-> FALSE]
  ELSE LET contract == Head(contract_list) IN
       IF contract = NotADictC THEN [map |-> m, raised |-> TRUE]
       ELSE FillContracts(
              IF Truthy(contract.contractId) THEN Put(m, contract.contractId, contract) ELSE m,
              Tail(contract_list))

\* the loop of lines 99-102 over positionList
RECURSIVE FillPositions(_, _)
FillPositions(m, position_list) ==
  IF position_list = << >> THEN [map |-> m, raised |-> FALSE]
  ELSE LET position == Head(position_list) IN
       IF position = NotADictC THEN [map |-> m, raised |-> TRUE]
       ELSE FillPositions(
              IF Truthy(position.contractId) THEN Put(m, position.contractId, position) ELSE m,
              Tail(position_list))

\* lines 82-86: self.contracts after the metadata response, and the
\* exception the extraction raised, if any
ExtractContracts(cur, data) ==
  IF data.tag = "null"
    THEN [map |-> cur, list |-> << >>, raised |-> TRUE, exc |-> AttributeError]
  ELSE IF data.tag = "nulllist"
    THEN [map |-> cur, list |-> << >>, raised |-> TRUE, exc |-> TypeError]
  ELSE LET contract_list == IF data.tag = "absent" THEN << >> ELSE data.list
           f == FillContracts(cur, contract_list)
       IN [map |-> f.map, list |-> contract_list, raised |-> f.raised,
           exc |-> IF f.raised THEN AttributeError ELSE NoExc]

\* an extraction that takes a data it cannot read for an empty list
ExtractPositions_Lenient(cur, data) ==
  [map |-> cur, list |-> << >>, raised |-> FALSE, exc |-> NoExc]

\* lines 97-102: self.positions after the positions response
ExtractPositions(cur, data) ==
  IF data.tag = "null"
    THEN [map |-> cur, list |-> << >>, raised |-> TRUE, exc |-> AttributeError]
  ELSE IF data.tag = "nulllist"
    THEN [map |-> cur, list |-> << >>, raised |-> TRUE, exc |-> TypeError]
  ELSE LET position_list == IF data.tag = "absent" THEN << >> ELSE data.list
           f == FillPositions(cur, position_list)
       IN [map |-> f.map, list |-> position_list, raised |-> f.raised,
           exc |-> IF f.raised THEN AttributeError ELSE NoExc]

\* line 92: assets_response.get("data", {})
AssetsOf(resp) == IF resp.data.tag = "absent" THEN Data("dict", << >>) ELSE resp.data

\* the account assets a response or an account push carries
AssetDatas == { Data("dict", << "a1" >>), Data("dict", << "a2" >>) }
AssetResps ==
  { Resp("SUCCESS", None, d) : d \in AssetDatas } \cup FailResps({NoData, Data("null", <<>>)})

\* `except Exception as e: logger.error(...); return False` of initialize
InitFailed(m, e) == Finish(m, ReturnBool(FALSE), << LogEntry(LogText("initialize"), e) >>)

\* ---------------------------------------------------- initialize_websocket
\* the calls on the WebSocketManager, in the order of lines 144-166
WsCalls ==
  << "connect_public", "connect_private", "subscribe_account_update",
     "subscribe_order_update", "subscribe_position_update",
     "subscribe_ticker", "subscribe_kline", "subscribe_depth" >>

\* an initialize_websocket that logs the call that raised and goes on with
\* the calls after it
InitializeWebsocket_GoesOn(w, failAt) ==
  [ ws  |-> w \cup { WsCalls[i] : i \in (1..Len(WsCalls)) \ {failAt} },
    attempted |-> WsCalls,
    ok  |-> failAt = 0,
    log |-> IF failAt = 0 THEN << >>
            ELSE << LogEntry("Failed to initialize WebSocket", SdkError(WsCalls[failAt])) >> ]

\* initialize_websocket where call number failAt raises (0: none does): the
\* calls completed on the manager, the value returned and the errors logged
InitializeWebsocket(w, failAt) ==
  LET done == IF failAt = 0 THEN Len(WsCalls) ELSE failAt - 1 IN
  [ ws  |-> w \cup { WsCalls[i] : i \in 1..done },
    attempted |-> SubSeq(WsCalls, 1, IF failAt = 0 THEN Len(WsCalls) ELSE failAt),
    ok  |-> failAt = 0,
    log |-> IF failAt = 0 THEN << >>
            ELSE << LogEntry("Failed to initialize WebSocket", SdkError(WsCalls[failAt])) >> ]

\* ------------------------------------------------------------------ Init
\* the state __init__ leaves (lines 65-70), on a loop with no task yet
BgNone == [st |-> "none", ok |-> "-", log |-> << >>]

\* a run of initialize_websocket: the calls it made on the manager, in
\* order, the last of them raising when it returned False
WsRun(attempted, ok) == [attempted |-> attempted, ok |-> IF ok THEN "True" ELSE "False"]
NoWsRun == [attempted |-> << >>, ok |-> "-"]

\* main() not running: the trader is driven operation by operation
NoProg == [pc |-> "-", closed |-> FALSE, close_ok |-> "-"]

TraderInit ==
  /\ wsrun = NoWsRun
  /\ metadata = NoResp
  /\ contracts = EmptyDict
  /\ market_data = EmptyDict
  /\ active_orders = EmptyDict
  /\ positions = EmptyDict
  /\ assets = Data("dict", << >>)
  /\ ws = {}
  /\ main = Main("-", "-", NoResp, NoRet, << >>, << >>)
  /\ bg = [i \in Tasks |-> BgNone]
  /\ inflight = {}
  /\ hlog = << >>
  /\ calls = 0

\* no test runner is running beside the trader
NoRunner ==
  [script |-> "-", pc |-> "-", env |-> {}, started |-> FALSE, returncode |-> 0,
   failures |-> 0, errors |-> 0, status |-> -1]

Init == TraderInit /\ runner = NoRunner /\ prog = NoProg

\* --------------------------------------------------- the driver's actions
\* The driver invokes operation o: it runs to its first awaited SDK call.
Call(o) ==
  /\ Idle
  /\ calls < MaxCalls
  /\ calls' = calls + 1
  /\ main' = Main(o, FirstApi(o), NoResp, NoRet, << FirstApi(o) >>, << >>)
  /\ inflight' = Await(inflight, 0, FirstApi(o))
  /\ UNCHANGED << prog, wsrun, runner, fields, ws, bg, hlog >>

\* update_active_orders called by the driver: get_active_orders completed
update_active_orders(out) ==
  /\ Awaiting("update_active_orders", "get_active_orders")
  /\ LET u == UpdateActiveOrders(active_orders, out) IN
       /\ active_orders' = u.active_orders
       /\ main' = Finish(main, ReturnBool(u.ok), u.log)
  /\ inflight' = Resume(inflight, 0, "get_active_orders")
  /\ UNCHANGED << prog, wsrun, runner, metadata, contracts, market_data, positions, assets, ws, bg, hlog, calls >>

\* an order mutation path: create_order / cancel_order completed
MutationResponded(o, out) ==
  /\ Awaiting(o, FirstApi(o))
  /\ LET s == MutationStep(o, out) IN
       IF s.next = "-"
         THEN /\ main' = Finish(main, s.ret, s.log)
              /\ inflight' = Resume(inflight, 0, FirstApi(o))
         ELSE /\ main' = [GoOn(main, s.next, s.log) EXCEPT !.held = out.resp]
              /\ inflight' = Await(Resume(inflight, 0, FirstApi(o)), 0, s.next)
  /\ UNCHANGED << prog, wsrun, runner, fields, ws, bg, hlog, calls >>

\* an order mutation path: its `await self.update_active_orders()` completed;
\* the refresh's result is dropped and the held response returned
MutationRefreshed(o, out) ==
  /\ Awaiting(o, "get_active_orders")
  /\ LET u == UpdateActiveOrders(active_orders, out) IN
       /\ active_orders' = u.active_orders
       /\ main' = Finish(main, ReturnResult(main.held), u.log)
  /\ inflight' = Resume(inflight, 0, "get_active_orders")
  /\ UNCHANGED << prog, wsrun, runner, metadata, contracts, market_data, positions, assets, ws, bg, hlog, calls >>

create_limit_order ==
  \/ \E out \in Outcomes("create_order", PlainResps) : MutationResponded("create_limit_order", out)
  \/ \E out \in ActiveOrdersOutcomes : MutationRefreshed("create_limit_order", out)

cancel_order ==
  \/ \E out \in Outcomes("cancel_order", PlainResps) : MutationResponded("cancel_order", out)
  \/ \E out \in ActiveOrdersOutcomes : MutationRefreshed("cancel_order", out)

cancel_all_orders ==
  \/ \E out \in Outcomes("cancel_order", PlainResps) : MutationResponded("cancel_all_orders", out)
  \/ \E out \in ActiveOrdersOutcomes : MutationRefreshed("cancel_all_orders", out)

\* a query path: its SDK call completed
QueryResponded(o, out) ==
  /\ Awaiting(o, FirstApi(o))
  /\ LET s == QueryStep(o, out) IN main' = Finish(main, s.ret, s.log)
  /\ inflight' = Resume(inflight, 0, FirstApi(o))
  /\ UNCHANGED << prog, wsrun, runner, fields, ws, bg, hlog, calls >>

get_order_fill_transactions ==
  \E out \in Outcomes("get_order_fill_transactions", PlainResps) :
    QueryResponded("get_order_fill_transactions", out)

get_k_line ==
  \E out \in Outcomes("get_k_line", PlainResps) : QueryResponded("get_k_line", out)

get_order_book_depth ==
  \E out \in Outcomes("get_order_book_depth", PlainResps) :
    QueryResponded("get_order_book_depth", out)

\* initialize: get_metadata completed (lines 78-91)
initialize_metadata(out) ==
  /\ Awaiting("initialize", "get_metadata")
  /\ IF out.raised
       THEN /\ main' = InitFailed(main, out.exc)
            /\ inflight' = Resume(inflight, 0, "get_metadata")
            /\ UNCHANGED << metadata, contracts >>
       ELSE LET x == ExtractContracts(contracts, out.resp.data) IN
            /\ metadata' = out.resp
            /\ contracts' = x.map
            /\ IF x.raised
                 THEN /\ main' = InitFailed(main, x.exc)
                      /\ inflight' = Resume(inflight, 0, "get_metadata")
                 ELSE /\ main' = [GoOn(main, "get_account_asset", << >>)
                                    EXCEPT !.contract_list = x.list]
                      /\ inflight' = Await(Resume(inflight, 0, "get_metadata"), 0, "get_account_asset")
  /\ UNCHANGED << prog, wsrun, runner, market_data, active_orders, positions, assets, ws, bg, hlog, calls >>

\* initialize: get_account_asset completed (lines 91-96)
initialize_assets(out) ==
  /\ Awaiting("initialize", "get_account_asset")
  /\ IF out.raised
       THEN /\ main' = InitFailed(main, out.exc)
            /\ inflight' = Resume(inflight, 0, "get_account_asset")
            /\ UNCHANGED assets
       ELSE /\ assets' = AssetsOf(out.resp)
            /\ main' = GoOn(main, "get_account_positions", << >>)
            /\ inflight' = Await(Resume(inflight, 0, "get_account_asset"), 0, "get_account_positions")
  /\ UNCHANGED << prog, wsrun, runner, metadata, contracts, market_data, active_orders, positions, ws, bg, hlog, calls >>

\* initialize: get_account_positions completed (lines 96-107)
initialize_positions(out) ==
  /\ Awaiting("initialize", "get_account_positions")
  /\ IF out.raised
       THEN /\ main' = InitFailed(main, out.exc)
            /\ inflight' = Resume(inflight, 0, "get_account_positions")
            /\ UNCHANGED positions
       ELSE LET x == ExtractPositions(positions, out.resp.data) IN
            /\ positions' = x.map
            /\ IF x.raised
                 THEN /\ main' = InitFailed(main, x.exc)
                      /\ inflight' = Resume(inflight, 0, "get_account_positions")
                 ELSE /\ main' = [GoOn(main, "get_active_orders", << >>)
                                    EXCEPT !.position_list = x.list]
                      /\ inflight' = Await(Resume(inflight, 0, "get_account_positions"), 0, "get_active_orders")
  /\ UNCHANGED << prog, wsrun, runner, metadata, contracts, market_data, active_orders, assets, ws, bg, hlog, calls >>

\* initialize: its `await self.update_active_orders()` completed; then
\* initialize_websocket runs (it awaits nothing) and initialize returns True
\* (lines 107-113)
initialize_orders(out, failAt) ==
  /\ Awaiting("initialize", "get_active_orders")
  /\ LET u == UpdateActiveOrders(active_orders, out)
         w == InitializeWebsocket(ws, failAt)
     IN /\ active_orders' = u.active_orders
        /\ ws' = w.ws
        /\ wsrun' = WsRun(w.attempted, w.ok)
        /\ main' = Finish(main, ReturnBool(TRUE), u.log \o w.log)
  /\ inflight' = Resume(inflight, 0, "get_active_orders")
  /\ UNCHANGED << prog, runner, metadata, contracts, market_data, positions, assets, bg, hlog, calls >>

\* initialize, its awaited calls completing with outcomes from M (metadata),
\* A (assets), P (positions), O (active orders), and initialize_websocket
\* failing at a call number of F
initialize(M, A, P, O, F) ==
  \/ \E out \in M : initialize_metadata(out)
  \/ \E out \in A : initialize_assets(out)
  \/ \E out \in P : initialize_positions(out)
  \/ \E out \in O, failAt \in F : initialize_orders(out, failAt)

\* ------------------------------------------------------ push handlers
\* A push message: text json.loads rejects ("malformed"), an envelope whose
\* content is null ("nullcontent"), or an envelope carrying `data`.
Msg(kind, data) == [kind |-> kind, data |-> data]

\* a handler that logs what it caught and raises it again to its invoker
HandlerLog_Reraise(text, e) == << LogEntry(text, e), LogEntry("raise", e) >>

\* `except Exception as e: logger.error(...)` of a handler
HandlerLog(text, e) == << LogEntry(text, e) >>

AccountMsgs ==
  { Msg("malformed", NoData), Msg("nullcontent", NoData) }
    \cup { Msg("data", d) : d \in AssetDatas \cup {Data("dict", << >>), Data("null", << >>)} }

\* `if account_data:` holds for a dict that is not empty
handle_account_update(message) ==
  /\ "subscribe_account_update" \in ws
  /\ IF message.kind = "malformed"
       THEN hlog' = HandlerLog("Failed to handle account update", JSONDecodeError)
            /\ UNCHANGED assets
     ELSE IF message.kind = "nullcontent"
       THEN hlog' = HandlerLog("Failed to handle account update", AttributeError)
            /\ UNCHANGED assets
     ELSE /\ hlog' = << >>
          /\ assets' = IF message.data \in AssetDatas THEN message.data ELSE assets
  /\ UNCHANGED << prog, wsrun, runner, metadata, contracts, market_data, active_orders, positions,
                  ws, main, bg, inflight, calls >>

PositionMsgs ==
  { Msg("malformed", NotADictC), Msg("nullcontent", NotADictC) }
    \cup { Msg("data", d) : d \in Positions \cup {NotADictC} }

\* a null `data` makes position_data.get raise
handle_position_update(message) ==
  /\ "subscribe_position_update" \in ws
  /\ IF message.kind = "malformed"
       THEN hlog' = HandlerLog("Failed to handle position update", JSONDecodeError)
            /\ UNCHANGED positions
     ELSE IF message.kind = "nullcontent" \/ message.data = NotADictC
       THEN hlog' = HandlerLog("Failed to handle position update", AttributeError)
            /\ UNCHANGED positions
     ELSE /\ hlog' = << >>
          /\ positions' = IF Truthy(message.data.contractId)
                            THEN Put(positions, message.data.contractId, message.data)
                            ELSE positions
  /\ UNCHANGED << prog, wsrun, runner, metadata, contracts, market_data, active_orders, assets,
                  ws, main, bg, inflight, calls >>

\* asyncio.create_task(coro): the task is made and will run when the loop
\* next takes it; nobody keeps or awaits it
CreateTask(tasks, i) == [tasks EXCEPT ![i] = [st |-> "ready", ok |-> "-", log |-> << >>]]

handle_order_update(message) ==
  /\ "subscribe_order_update" \in ws
  /\ IF message.kind = "malformed"
       THEN hlog' = HandlerLog("Failed to handle order update", JSONDecodeError)
            /\ UNCHANGED bg
       ELSE /\ hlog' = << >>
            /\ \E i \in Tasks :
                 /\ bg[i].st = "none"
                 /\ \A j \in Tasks : j < i => bg[j].st # "none"
                 /\ bg' = CreateTask(bg, i)
  /\ UNCHANGED << prog, wsrun, runner, fields, ws, main, inflight, calls >>

\* --------------------------------------------------- market-data pushes
\* What a market-data push carries as content.data: a dict with contractId,
\* interval and a price ("" stands for a member the dict lacks); NotAQuote is
\* a value that is no dict.
Quote(c, i, px) == [contractId |-> c, interval |-> i, px |-> px]
NotAQuote == Quote("<not a dict>", "-", "-")
\* content.data: absent, null, one dict ("dict", items of length 1) or a list
Payload(tag, items) == [tag |-> tag, items |-> items]

\* self.market_data[kind][key] = value, after `if kind not in
\* self.market_data: self.market_data[kind] = {}`
PutIn(md, kind, key, value) ==
  Put(md, kind, Put(IF kind \in DOMAIN md THEN md[kind] ELSE EmptyDict, key, value))

\* a K-line store that starts the contract's dict afresh on every push
PutKline_Fresh(md, contract_id, interval, kline_data) ==
  LET k == IF "kline" \in DOMAIN md THEN md["kline"] ELSE EmptyDict
  IN Put(md, "kline", Put(k, contract_id, Put(EmptyDict, interval, kline_data)))

\* self.market_data["kline"][contract_id][interval] = kline_data, the dicts
\* on the way made when missing (lines 285-291)
PutKline(md, contract_id, interval, kline_data) ==
  LET k  == IF "kline" \in DOMAIN md THEN md["kline"] ELSE EmptyDict
      kc == IF contract_id \in DOMAIN k THEN k[contract_id] ELSE EmptyDict
  IN Put(md, "kline", Put(k, contract_id, Put(kc, interval, kline_data)))

\* lines 251-254: the first element of a list that is not empty, else the
\* data itself (which is a dict only when the payload is one)
TickerData(p) ==
  IF p.tag = "list" /\ p.items # << >> THEN p.items[1]
  ELSE IF p.tag = "dict" THEN p.items[1]
  ELSE NotAQuote

handle_ticker_update(message) ==
  /\ "subscribe_ticker" \in ws
  /\ IF message.kind = "malformed"
       THEN hlog' = HandlerLog("Failed to handle ticker update", JSONDecodeError)
            /\ UNCHANGED market_data
     ELSE IF message.kind = "nullcontent"
       THEN hlog' = HandlerLog("Failed to handle ticker update", AttributeError)
            /\ UNCHANGED market_data
     ELSE LET ticker_data == TickerData(message.data)
              contract_id == IF ticker_data = NotAQuote THEN None ELSE ticker_data.contractId
          IN /\ hlog' = << >>
             /\ market_data' = IF Truthy(contract_id)
                                 THEN PutIn(market_data, "ticker", contract_id, ticker_data)
                                 ELSE market_data
  /\ UNCHANGED << prog, wsrun, runner, metadata, contracts, active_orders, positions, assets,
                  ws, main, bg, inflight, calls >>

\* content.data of a K-line or depth push that is null or a list has no .get
DataRaises(p) == p.tag \in {"null", "list"} \/ (p.tag = "dict" /\ p.items[1] = NotAQuote)
\* .get("data", {}) of a push without data
DataOf(p) == IF p.tag = "absent" THEN Quote("", "", "") ELSE p.items[1]

handle_kline_update(message) ==
  /\ "subscribe_kline" \in ws
  /\ IF message.kind = "malformed"
       THEN hlog' = HandlerLog("Failed to handle K-line update", JSONDecodeError)
            /\ UNCHANGED market_data
     ELSE IF message.kind = "nullcontent" \/ DataRaises(message.data)
       THEN hlog' = HandlerLog("Failed to handle K-line update", AttributeError)
            /\ UNCHANGED market_data
     ELSE LET kline_data == DataOf(message.data)
              contract_id == kline_data.contractId
              interval == kline_data.interval
          IN /\ hlog' = << >>
             /\ market_data' = IF Truthy(contract_id) /\ Truthy(interval)
                                 THEN PutKline(market_data, contract_id, interval, kline_data)
                                 ELSE market_data
  /\ UNCHANGED << prog, wsrun, runner, metadata, contracts, active_orders, positions, assets,
                  ws, main, bg, inflight, calls >>

handle_depth_update(message) ==
  /\ "subscribe_depth" \in ws
  /\ IF message.kind = "malformed"
       THEN hlog' = HandlerLog("Failed to handle depth update", JSONDecodeError)
            /\ UNCHANGED market_data
     ELSE IF message.kind = "nullcontent" \/ DataRaises(message.data)
       THEN hlog' = HandlerLog("Failed to handle depth update", AttributeError)
            /\ UNCHANGED market_data
     ELSE LET depth_data == DataOf(message.data)
              contract_id == depth_data.contractId
          IN /\ hlog' = << >>
             /\ market_data' = IF Truthy(contract_id)
                                 THEN PutIn(market_data, "depth", contract_id, depth_data)
                                 ELSE market_data
  /\ UNCHANGED << prog, wsrun, runner, metadata, contracts, active_orders, positions, assets,
                  ws, main, bg, inflight, calls >>

\* ------------------------------------------- the background refresh tasks
\* the loop starts the task: update_active_orders runs to its await
BgStart(i) ==
  /\ bg[i].st = "ready"
  /\ \A j \in Tasks : j < i => bg[j].st # "ready"
  /\ bg' = [bg EXCEPT ![i].st = "waiting"]
  /\ inflight' = Await(inflight, i, "get_active_orders")
  /\ UNCHANGED << prog, wsrun, runner, fields, ws, main, hlog, calls >>

\* the task's get_active_orders completed: update_active_orders runs to its
\* end and the task is done, holding the value returned
BgResume(i, out) ==
  /\ bg[i].st = "waiting"
  /\ Req(i, "get_active_orders") \in inflight
  /\ LET u == UpdateActiveOrders(active_orders, out) IN
       /\ active_orders' = u.active_orders
       /\ bg' = [bg EXCEPT ![i] = [st |-> "done", ok |-> IF u.ok THEN "True" ELSE "False",
                                   log |-> u.log]]
  /\ inflight' = Resume(inflight, i, "get_active_orders")
  /\ UNCHANGED << prog, wsrun, runner, metadata, contracts, market_data, positions, assets, ws, main, hlog, calls >>

\* ------------------------------------------------------------ the system
\* Order management: the driver invokes any operation, order pushes arrive
\* once subscribed, and the refresh tasks they make run concurrently.  The
\* account behind it is empty: initialize sees empty lists, or fails.
EmptyAccountResps ==
  { Resp("SUCCESS", None, Data("dict", << >>)), Resp("FAIL", "E1", Data("null", << >>)) }

Next ==
  \/ \E o \in Ops : Call(o)
  \/ initialize(Outcomes("get_metadata", EmptyAccountResps),
                Outcomes("get_account_asset", {Resp("SUCCESS", None, Data("dict", << "a1" >>))}),
                Outcomes("get_account_positions", EmptyAccountResps),
                ActiveOrdersOutcomes, {0, 4})
  \/ \E out \in ActiveOrdersOutcomes : update_active_orders(out)
  \/ create_limit_order
  \/ cancel_order
  \/ cancel_all_orders
  \/ get_order_fill_transactions
  \/ get_k_line
  \/ get_order_book_depth
  \/ \E message \in {Msg("malformed", NoData), Msg("data", NoData)} : handle_order_update(message)
  \/ \E i \in Tasks : BgStart(i)
  \/ \E i \in Tasks, out \in ActiveOrdersOutcomes : BgResume(i, out)

Spec == Init /\ [][Next]_vars

\* ------------------------------------------------------ the test runners
tvars == << metadata, contracts, market_data, active_orders, positions, assets,
            ws, main, bg, inflight, hlog, calls, wsrun, prog >>

Scripts == {"run_integration_tests", "run_mock_tests", "run_public_tests"}

\* the variables tests.integration.config requires
RequiredVars ==
  {"EDGEX_BASE_URL", "EDGEX_WS_URL", "EDGEX_ACCOUNT_ID", "EDGEX_STARK_PRIVATE_KEY"}

\* tests.integration.config.check_env_vars
check_env_vars(env) ==
  [all_set |-> RequiredVars \subseteq env, missing_vars |-> RequiredVars \ env]

\* sys.exit(n): the status the parent sees is the low 8 bits of n
ExitStatus(n) == n % (2^8)

\* the check of the environment left out
MustExit_Never(env_status) == FALSE

\* `if not env_status["all_set"]`
MustExit(env_status) == ~env_status.all_set

ReturnCodes == (-MaxSignal)..MaxReturnCode

Exited(r, n) == [r EXCEPT !.pc = "exited", !.status = ExitStatus(n)]

\* run_integration_tests.py, lines 21-26: the check of the environment
IntegrationCheck ==
  /\ runner.script = "run_integration_tests" /\ runner.pc = "start"
  /\ LET env_status == check_env_vars(runner.env) IN
       runner' = IF MustExit(env_status) THEN Exited(runner, 1)
                 ELSE [runner EXCEPT !.pc = "run"]
  /\ UNCHANGED tvars

\* lines 36-39: the tests run as a subprocess and its return code is passed on
IntegrationRun(returncode) ==
  /\ runner.script = "run_integration_tests" /\ runner.pc = "run"
  /\ runner' = Exited([runner EXCEPT !.started = TRUE, !.returncode = returncode],
                      returncode)
  /\ UNCHANGED tvars

\* run_mock_tests.py, lines 26-41
MockRun(returncode) ==
  /\ runner.script = "run_mock_tests" /\ runner.pc = "start"
  /\ runner' = Exited([runner EXCEPT !.env = @ \cup RequiredVars \cup {"EDGEX_SIGNING_ADAPTER"},
                                     !.started = TRUE, !.returncode = returncode],
                      returncode)
  /\ UNCHANGED tvars

\* run_public_tests.py, lines 22-52
PublicRun(failures, errors) ==
  /\ runner.script = "run_public_tests" /\ runner.pc = "start"
  /\ runner' = Exited([runner EXCEPT !.env = @ \cup RequiredVars
                                                \cup {"EDGEX_SIGNING_ADAPTER", "EDGEX_PUBLIC_ONLY"},
                                     !.started = TRUE, !.failures = failures, !.errors = errors],
                      failures + errors)
  /\ UNCHANGED tvars

\* a runner is started in some environment
RunnerInit ==
  /\ TraderInit /\ prog = NoProg
  /\ runner \in { [NoRunner EXCEPT !.script = s, !.pc = "start", !.env = e] :
                    s \in Scripts, e \in SUBSET RequiredVars }

RunnerNext ==
  \/ IntegrationCheck
  \/ \E returncode \in ReturnCodes : IntegrationRun(returncode)
  \/ \E returncode \in ReturnCodes : MockRun(returncode)
  \/ \E failures \in 0..MaxFailures, errors \in 0..MaxErrors : PublicRun(failures, errors)

RunnerSpec == RunnerInit /\ [][RunnerNext]_vars

\* ---------------------------------------------------- initialization runs
\* The driver initializes the trader, again and again, on an account with
\* contracts and positions, while position and account pushes arrive.
WithIds(S) == { x \in S : Truthy(x.contractId) }

InitNext ==
  \/ Call("initialize")
  \/ initialize(Outcomes("get_metadata", ListResps(WithIds(Contracts))),
                Outcomes("get_account_asset", AssetResps),
                Outcomes("get_account_positions", ListResps(Positions \cup {NotADictC})),
                Outcomes("get_active_orders", EmptyAccountResps), {0, 1})
  \/ \E message \in PositionMsgs : handle_position_update(message)
  \/ \E message \in AccountMsgs : handle_account_update(message)

InitSpec == Init /\ [][InitNext]_vars

\* ---------------------------------------------------------- market runs
\* The driver initializes the trader once, and ticker, K-line and depth
\* pushes arrive for two contracts and two intervals, tickers at two prices.
InitializeOnce == calls = 0 /\ Call("initialize")

TickerQuotes == { Quote(c, "", px) : c \in {"", "c1", "c2"}, px \in {"p1", "p2"} }
TickerLists ==
  SeqsUpTo({Quote("c1", "", "p1"), Quote("c2", "", "p2"), Quote("", "", "p1")}, MaxList)
    \cup { << NotAQuote >> }
TickerMsgs ==
  { Msg("malformed", Payload("absent", << >>)), Msg("nullcontent", Payload("absent", << >>)),
    Msg("data", Payload("absent", << >>)), Msg("data", Payload("null", << >>)),
    Msg("data", Payload("dict", << NotAQuote >>)) }
    \cup { Msg("data", Payload("dict", << q >>)) : q \in TickerQuotes }
    \cup { Msg("data", Payload("list", l)) : l \in TickerLists }

KlineQuotes == { Quote(c, i, "p1") : c \in {"", "c1", "c2"}, i \in {"", "1m", "5m"} }
DepthQuotes == { Quote(c, "", "p1") : c \in {"", "c1", "c2"} }
KlineMsgs ==
  { Msg("malformed", Payload("absent", << >>)), Msg("nullcontent", Payload("absent", << >>)),
    Msg("data", Payload("absent", << >>)), Msg("data", Payload("null", << >>)),
    Msg("data", Payload("dict", << NotAQuote >>)),
    Msg("data", Payload("list", << Quote("c1", "1m", "p1") >>)) }
    \cup { Msg("data", Payload("dict", << q >>)) : q \in KlineQuotes }

DepthMsgs ==
  { Msg("malformed", Payload("absent", << >>)), Msg("nullcontent", Payload("absent", << >>)),
    Msg("data", Payload("absent", << >>)), Msg("data", Payload("null", << >>)),
    Msg("data", Payload("dict", << NotAQuote >>)),
    Msg("data", Payload("list", << Quote("c1", "", "p1") >>)) }
    \cup { Msg("data", Payload("dict", << q >>)) : q \in DepthQuotes }

\* the pushes that json.loads accepts and that carry a content
Parsed(msgs) == { m \in msgs : m.kind = "data" }

TickerPushes == Parsed(TickerMsgs)
KlinePushes == Parsed(KlineMsgs)
DepthPushes == Parsed(DepthMsgs)

MarketNext ==
  \/ InitializeOnce
  \/ initialize(Outcomes("get_metadata", EmptyAccountResps),
                Outcomes("get_account_asset", {Resp("SUCCESS", None, Data("dict", << "a1" >>))}),
                Outcomes("get_account_positions", EmptyAccountResps),
                Outcomes("get_active_orders", EmptyAccountResps), {0, 7})
  \/ \E message \in TickerPushes : handle_ticker_update(message)
  \/ \E message \in KlinePushes : handle_kline_update(message)
  \/ \E message \in DepthPushes : handle_depth_update(message)

MarketSpec == Init /\ [][MarketNext]_vars

\* ------------------------------------------------------------ push runs
\* The driver initializes the trader once, initialize_websocket stopping at
\* any of its calls, and pushes of all six kinds arrive: for each kind one
\* that sets an entry, and those that cannot be parsed or name no contract.
OrderMsgs == { Msg("malformed", NoData), Msg("data", NoData) }

FewAccountMsgs == { m \in AccountMsgs : m.kind # "data" \/ m.data # Data("dict", << "a1" >>) }
FewPositionMsgs == { m \in PositionMsgs : m.kind # "data" \/ m.data.contractId # "c2" }

FewTickerMsgs ==
  { m \in TickerMsgs :
      \/ m.kind # "data" \/ m.data.tag \in {"absent", "null"}
      \/ m.data.items \in { << >>, << NotAQuote >>, << Quote("c1", "", "p1") >>,
                             << Quote("", "", "p1") >>,
                             << Quote("", "", "p1"), Quote("c1", "", "p1") >> } }
FewKlineMsgs ==
  { m \in KlineMsgs :
      \/ m.kind # "data" \/ m.data.tag # "dict"
      \/ m.data.items \in { << NotAQuote >>, << Quote("c1", "1m", "p1") >>,
                             << Quote("", "1m", "p1") >>, << Quote("c1", "", "p1") >> } }
FewDepthMsgs ==
  { m \in DepthMsgs :
      \/ m.kind # "data" \/ m.data.tag # "dict"
      \/ m.data.items \in { << NotAQuote >>, << Quote("c1", "", "p1") >>,
                             << Quote("", "", "p1") >> } }

PushNext ==
  \/ InitializeOnce
  \/ initialize(Outcomes("get_metadata", EmptyAccountResps),
                Outcomes("get_account_asset", {Resp("SUCCESS", None, Data("dict", << "a1" >>))}),
                Outcomes("get_account_positions", EmptyAccountResps),
                Outcomes("get_active_orders", EmptyAccountResps), 0..Len(WsCalls))
  \/ \E message \in FewAccountMsgs : handle_account_update(message)
  \/ \E message \in OrderMsgs : handle_order_update(message)
  \/ \E message \in FewPositionMsgs : handle_position_update(message)
  \/ \E message \in FewTickerMsgs : handle_ticker_update(message)
  \/ \E message \in FewKlineMsgs : handle_kline_update(message)
  \/ \E message \in FewDepthMsgs : handle_depth_update(message)
  \/ \E i \in Tasks : BgStart(i)
  \/ \E i \in Tasks, out \in Outcomes("get_active_orders", {Resp("SUCCESS", None, Data("dict", << >>))}) :
       BgResume(i, out)

PushSpec == Init /\ [][PushNext]_vars

\* ------------------------------------------------------------- main()
\* main() makes the trader and awaits its operations one after the other.
\* Each step below runs main() from the return of one awaited operation to
\* the first SDK call of the next; the operation itself runs by the actions
\* above.  prog.pc is the operation main() awaits ("sleep": asyncio.sleep),
\* or how main() ended: "returned", or "raised" when an exception left it.
MainCall(o) ==
  /\ Idle
  /\ calls' = calls + 1
  /\ main' = Main(o, FirstApi(o), NoResp, NoRet, << FirstApi(o) >>, << >>)
  /\ inflight' = Await(inflight, 0, FirstApi(o))
  /\ prog' = [prog EXCEPT !.pc = o]
  /\ UNCHANGED << wsrun, runner, fields, ws, bg, hlog >>

\* a main() without the finally clause: it ends without closing the trader
Close_Skipped(how, disconnected) ==
  /\ prog' = [prog EXCEPT !.pc = how]
  /\ UNCHANGED << wsrun, runner, fields, ws, main, bg, inflight, hlog, calls >>

\* `finally: await trader.close()` (lines 651-653, 591-602): disconnect_all
\* is called; when it raises, close logs that and returns False.  Then
\* main() ends as `how`.
Close(how, disconnected) ==
  /\ prog' = [pc |-> how, closed |-> TRUE, close_ok |-> IF disconnected THEN "True" ELSE "False"]
  /\ ws' = IF disconnected THEN {} ELSE ws
  /\ UNCHANGED << wsrun, runner, fields, main, bg, inflight, hlog, calls >>

\* lines 607-622: up to the first await of initialize
main_initialize ==
  /\ prog.pc = "start"
  /\ MainCall("initialize")

\* lines 622-628: initialize returned; on False main() returns at once
main_get_k_line ==
  /\ prog.pc = "initialize" /\ Idle
  /\ IF main.ret.kind = "False"
       THEN /\ prog' = [prog EXCEPT !.pc = "returned"]
            /\ UNCHANGED << wsrun, runner, fields, ws, main, bg, inflight, hlog, calls >>
       ELSE MainCall("get_k_line")

\* lines 628-632: get_k_line returned or raised; line 629 reads
\* klines.get('data', {}).get('list', []), which raises on a null data
main_get_order_book_depth ==
  /\ prog.pc = "get_k_line" /\ Idle
  /\ IF main.ret.kind = "raise" \/ main.ret.resp.data.tag = "null"
       THEN \E disconnected \in BOOLEAN : Close("raised", disconnected)
       ELSE MainCall("get_order_book_depth")

\* lines 632-649: get_order_book_depth returned or raised
main_sleep ==
  /\ prog.pc = "get_order_book_depth" /\ Idle
  /\ IF main.ret.kind = "raise"
       THEN \E disconnected \in BOOLEAN : Close("raised", disconnected)
       ELSE /\ prog' = [prog EXCEPT !.pc = "sleep"]
            /\ UNCHANGED << wsrun, runner, fields, ws, main, bg, inflight, hlog, calls >>

\* lines 649-653: the sleep is over
main_close ==
  /\ prog.pc = "sleep"
  /\ \E disconnected \in BOOLEAN : Close("returned", disconnected)

MainInit ==
  /\ TraderInit /\ runner = NoRunner
  /\ prog = [NoProg EXCEPT !.pc = "start"]

KLineResps == PlainResps \cup { Resp("SUCCESS", None, Data("null", << >>)) }

\* what main() does itself, and the completion of the SDK calls it awaits
MainSteps ==
  \/ main_initialize
  \/ main_get_k_line
  \/ main_get_order_book_depth
  \/ main_sleep
  \/ main_close
  \/ initialize(Outcomes("get_metadata", EmptyAccountResps),
                Outcomes("get_account_asset", {Resp("SUCCESS", None, Data("dict", << "a1" >>))}),
                Outcomes("get_account_positions", EmptyAccountResps),
                Outcomes("get_active_orders", EmptyAccountResps), 0..Len(WsCalls))
  \/ \E out \in Outcomes("get_k_line", KLineResps) : QueryResponded("get_k_line", out)
  \/ get_order_book_depth

\* the pushes that arrive meanwhile, and the refresh tasks they make
MainPushes ==
  \/ \E message \in OrderMsgs : handle_order_update(message)
  \/ \E message \in FewTickerMsgs : handle_ticker_update(message)
  \/ \E i \in Tasks : BgStart(i)
  \/ \E i \in Tasks, out \in Outcomes("get_active_orders", EmptyAccountResps) : BgResume(i, out)

MainNext == MainSteps \/ MainPushes

\* Every SDK call main() awaits completes, by a response or an exception,
\* the sleep ends, and the loop runs main() whenever it can go on.
MainSpec == MainInit /\ [][MainNext]_vars /\ WF_vars(MainSteps)

\* =================================================================
\* The claims
\* =================================================================
Last(q) == q[Len(q)]
Range(q) == { q[i] : i \in 1..Len(q) }
IsFailure(out) == ~out.raised /\ out.resp.code # "SUCCESS"

\* the step in which an operation of the driver receives `out`
ReceivedBy(out) ==
  \/ update_active_orders(out)
  \/ \E o \in MutationOps : MutationResponded(o, out) \/ MutationRefreshed(o, out)
  \/ \E o \in QueryOps : QueryResponded(o, out)
  \/ initialize_metadata(out) \/ initialize_assets(out) \/ initialize_positions(out)
  \/ \E failAt \in 0..Len(WsCalls) : initialize_orders(out, failAt)

\* the operation raised or logged an error, and an error it raised or logged
\* carries the response's errorParam when there is one
Reported(m, r) ==
  /\ m.ret.kind = "raise" \/ m.log # << >>
  /\ Truthy(r.errorParam) =>
       \/ m.ret.kind = "raise" /\ m.ret.exc.detail = r.errorParam
       \/ \E i \in 1..Len(m.log) : m.log[i].exc.detail = r.errorParam

FailureOutcomes == { Returned(r) : r \in FailResps({NoData, Data("null", << >>)}) }

\* C1: whenever an operation of EdgeXTrader receives a response whose code is
\* not "SUCCESS", it raises or reports an error, and the error carries the
\* response's errorParam when the response has one.
C1_NonSuccessReported ==
  [][ \A out \in FailureOutcomes : ReceivedBy(out) => Reported(main', out.resp) ]_vars

\* m holds exactly the entries of list that have an identifier, under it
ExactlyKeyed(m, list, id) ==
  /\ \A i \in 1..Len(list) : Truthy(list[i][id]) => list[i][id] \in DOMAIN m
  /\ \A k \in DOMAIN m : \E i \in 1..Len(list) : list[i][id] = k /\ m[k] = list[i]

\* the step in which a run of update_active_orders receives `out`
RefreshedWith(out) ==
  \/ update_active_orders(out)
  \/ \E o \in MutationOps : MutationRefreshed(o, out)
  \/ \E i \in Tasks : BgResume(i, out)
  \/ \E failAt \in 0..Len(WsCalls) : initialize_orders(out, failAt)

FetchSucceeded(out) ==
  /\ ~out.raised /\ out.resp.code = "SUCCESS" /\ out.resp.data.tag = "dict"
  /\ NotADict \notin Range(out.resp.data.list)
FetchFailed(out) == out.raised \/ out.resp.code # "SUCCESS"

\* C2: a run of update_active_orders whose fetch succeeded leaves in
\* active_orders exactly the orders of that fetch, keyed by orderId, and a run
\* whose fetch did not succeed leaves active_orders as it was.
C2_ExactlyLastFetch ==
  [][ \A out \in ActiveOrdersOutcomes : RefreshedWith(out) =>
        /\ FetchSucceeded(out) => ExactlyKeyed(active_orders', out.resp.data.list, "orderId")
        /\ FetchFailed(out) => active_orders' = active_orders ]_vars

\* C3: when initialize returns True, positions holds exactly the positions of
\* the positionList this call fetched, keyed by contractId, and contracts
\* exactly the contracts of the contractList it fetched.
C3_InitializeExact ==
  [][ (main.op = "initialize" /\ ~Idle /\ Idle' /\ main'.ret.kind = "True") =>
        /\ ExactlyKeyed(positions', main.position_list, "contractId")
        /\ ExactlyKeyed(contracts', main.contract_list, "contractId") ]_vars

\* the response carries a list the extraction loop fails on
ListFails(out, junk) ==
  \/ out.raised
  \/ out.resp.data.tag \in {"null", "nulllist"}
  \/ out.resp.data.tag = "dict" /\ junk \in Range(out.resp.data.list)

\* what get_metadata and get_account_positions can answer initialize
ContractListOutcomes == Outcomes("get_metadata", ListResps(Contracts \cup {NotADictC}))
PositionListOutcomes == Outcomes("get_account_positions", ListResps(Positions \cup {NotADictC}))

\* operation o ended in m by logging the failure at o and then raising it
\* (o in raising) or returning False (o in boolean)
Handled(o, m, raising, boolean) ==
  /\ m.pc = "-" /\ m.log # << >> /\ Last(m.log).msg = LogText(o)
  /\ o \in raising => m.ret.kind = "raise" /\ Last(m.log).exc = m.ret.exc
  /\ o \in boolean => m.ret.kind = "False"

\* every failure inside an operation is caught and logged there, and then
\* raised again by the operations of `raising` and turned into False by those
\* of `boolean`, which never raise
FailuresHandled(raising, boolean) ==
  /\ \A o \in MutationOps : Awaiting(o, FirstApi(o)) =>
       \A out \in Outcomes(FirstApi(o), PlainResps) :
         (MutationResponded(o, out) /\ (out.raised \/ IsFailure(out)))
           => Handled(o, main', raising, boolean)
  /\ \A o \in QueryOps : Awaiting(o, FirstApi(o)) =>
       \A out \in Outcomes(FirstApi(o), PlainResps) :
         (QueryResponded(o, out) /\ (out.raised \/ IsFailure(out)))
           => Handled(o, main', raising, boolean)
  /\ Awaiting("update_active_orders", "get_active_orders") =>
       \A out \in ActiveOrdersOutcomes :
         (update_active_orders(out) /\ ListFails(out, NotADict))
           => Handled("update_active_orders", main', raising, boolean)
  /\ Awaiting("initialize", "get_metadata") =>
       \A out \in ContractListOutcomes :
         (initialize_metadata(out) /\ ListFails(out, NotADictC))
           => Handled("initialize", main', raising, boolean)
  /\ Awaiting("initialize", "get_account_asset") =>
       \A out \in Outcomes("get_account_asset", AssetResps) :
         (initialize_assets(out) /\ out.raised) => Handled("initialize", main', raising, boolean)
  /\ Awaiting("initialize", "get_account_positions") =>
       \A out \in PositionListOutcomes :
         (initialize_positions(out) /\ ListFails(out, NotADictC))
           => Handled("initialize", main', raising, boolean)
  /\ (Idle' /\ main'.op \in boolean) => main'.ret.kind \in {"True", "False"}
  /\ (Idle' /\ main'.op \in raising) => main'.ret.kind \in {"raise", "result"}

C5_MissingEnvExits ==
  runner.script = "run_integration_tests" =>
    LET env_status == check_env_vars(runner.env) IN
    /\ runner.started => env_status.all_set /\ env_status.missing_vars = {}
    /\ env_status.missing_vars # {} =>
         /\ ~runner.started /\ runner.pc # "run"
         /\ runner.pc = "exited" => runner.status # 0

\* the integration runner has exited on an environment with a variable missing
C5_Witness ==
  /\ runner.script = "run_integration_tests" /\ runner.pc = "exited"
  /\ check_env_vars(runner.env).missing_vars # {}
  /\ runner.status = 1 /\ ~runner.started

\* the wrapped tests all passed
TestsPassed ==
  IF runner.script = "run_public_tests"
    THEN runner.failures = 0 /\ runner.errors = 0
    ELSE runner.returncode = 0

\* the value the runner passes to sys.exit
ExitValue ==
  IF runner.script = "run_public_tests"
    THEN runner.failures + runner.errors
    ELSE runner.returncode

\* C6: a runner that ran its tests exits with the value it computed, taken as
\* an 8-bit exit status, and that status is zero exactly when the wrapped
\* tests all passed.
C6_ZeroIffPassed ==
  (runner.pc = "exited" /\ runner.started) =>
    /\ runner.status = ExitValue % (2^8)
    /\ runner.status = 0 <=> TestsPassed

\* C7 (as stated): at every moment at most one SDK request issued by the
\* trader is in flight.
C7_OneInFlight == Cardinality(inflight) <= 1

\* C7 (amended): every task, the driver's coroutine and each background
\* refresh task, has at most one SDK request in flight; requests of different
\* tasks are in flight together, one per task at most.
C7_OneInFlightPerTask ==
  /\ \A t \in {0} \cup Tasks : Cardinality({ r \in inflight : r.task = t }) <= 1
  /\ \A r \in inflight : r.task \in Tasks => bg[r.task].st = "waiting"
  /\ (\E r \in inflight : r.task = 0) <=> ~Idle

\* the driver's create_order and a background refresh are in flight together
C7_Witness ==
  /\ Req(0, "create_order") \in inflight
  /\ \E i \in Tasks : Req(i, "get_active_orders") \in inflight

\* C8 (as stated): what get_active_orders raises inside the background
\* refresh scheduled by handle_order_update is never caught or logged.
C8_RefreshFailureUnobserved ==
  [][ \A i \in Tasks : \A out \in ActiveOrdersOutcomes :
        (BgResume(i, out) /\ out.raised) => bg'[i].log = << >> ]_vars

\* C8 (amended): the background refresh is made without being awaited, and
\* its result is read by nobody; what get_active_orders raises inside it is
\* caught and logged by update_active_orders itself, and the task ends
\* having returned False.
C8_RefreshFailureLogged ==
  [][ /\ \A message \in {Msg("data", NoData)} :
           handle_order_update(message) =>
             /\ main' = main /\ inflight' = inflight /\ active_orders' = active_orders
             /\ \E i \in Tasks : bg[i].st = "none" /\ bg'[i].st = "ready"
      /\ \A i \in Tasks : (bg[i].st = "waiting" /\ bg'[i].st # "waiting") =>
           /\ main' = main /\ hlog' = hlog
           /\ bg'[i].st = "done" /\ bg'[i].ok \in {"True", "False"}
           /\ \A out \in {Raised("get_active_orders")} :
                BgResume(i, out) =>
                  /\ bg'[i].ok = "False"
                  /\ bg'[i].log = << LogEntry("Failed to update active orders", out.exc) >>
                  /\ active_orders' = active_orders ]_vars

\* a background refresh ended after get_active_orders raised in it
C8_Witness ==
  \E i \in Tasks :
    /\ bg[i].st = "done" /\ bg[i].ok = "False"
    /\ bg[i].log = << LogEntry("Failed to update active orders", SdkError("get_active_orders")) >>

\* C9: no operation issues an SDK call twice in one invocation; a mutation
\* path issues its create_order or cancel_order call once and then, at most
\* once, get_active_orders.
C9_NoRetry ==
  /\ \A i, j \in 1..Len(main.trace) : i # j => main.trace[i] # main.trace[j]
  /\ main.op \in MutationOps =>
       \/ main.trace = << FirstApi(main.op) >>
       \/ main.trace = << FirstApi(main.op), "get_active_orders" >>

\* cancel_all_orders ended on an exception of cancel_order, having issued it once
C9_Witness ==
  /\ Idle /\ main.op = "cancel_all_orders"
  /\ main.ret = Raise(SdkError("cancel_order"))
  /\ main.trace = << "cancel_order" >>

\* C10: a mutation path that receives a response whose code is not "SUCCESS"
\* raises ValueError, requests no refresh and leaves active_orders,
\* positions, assets and market_data unchanged; a refresh is requested only
\* after a "SUCCESS" response, and before the operation returns.
C10_FailureRaisesWithoutRefresh ==
  [][ /\ \A o \in MutationOps : \A out \in Outcomes(FirstApi(o), PlainResps) :
           (MutationResponded(o, out) /\ IsFailure(out)) =>
             /\ main'.pc = "-"
             /\ main'.ret = Raise(ValueErrorOf(o, out.resp))
             /\ main'.ret.exc.type = "ValueError"
             /\ main'.trace = << FirstApi(o) >>
             /\ \A r \in inflight' : r.task # 0
             /\ UNCHANGED << active_orders, positions, assets, market_data >>
      /\ (main'.op \in MutationOps /\ "get_active_orders" \in Range(main'.trace)) =>
           IF main'.pc = "-"
             THEN main'.ret.kind = "result" /\ main'.ret.resp.code = "SUCCESS"
             ELSE main'.held.code = "SUCCESS"
      /\ (main'.op \in MutationOps /\ main'.pc = "-" /\ main'.ret.kind = "result") =>
           main'.trace = << FirstApi(main'.op), "get_active_orders" >> ]_vars

\* create_limit_order raised the ValueError of a failed response
C10_Witness ==
  /\ Idle /\ main.op = "create_limit_order"
  /\ main.ret = Raise(Exc("ValueError", "Failed to create order", "E1"))
  /\ main.trace = << "create_order" >>

\* the handler returned to its invoker: whatever its body raised it caught
\* and logged under its own text, and the driver's coroutine did not move
CaughtBy(text) ==
  /\ \/ hlog' = << >>
     \/ \E e \in {JSONDecodeError, AttributeError} : hlog' = << LogEntry(text, e) >>
  /\ main' = main /\ inflight' = inflight /\ prog' = prog

MapsUnchanged == UNCHANGED << assets, positions, active_orders, market_data >>

\* a ticker push whose data, or the first element of whose data, names no contract
NoTickerContract(m) ==
  \/ m.kind # "data" \/ m.data.tag \in {"absent", "null"} \/ m.data.items = << >>
  \/ m.data.items[1] = NotAQuote \/ m.data.items[1].contractId = ""

\* a K-line or depth push whose data is no dict or names no contract
NoContract(m) ==
  \/ m.kind # "data" \/ m.data.tag # "dict"
  \/ m.data.items[1] = NotAQuote \/ m.data.items[1].contractId = ""

SameExcept(new, old, key) ==
  /\ DOMAIN new = (DOMAIN old) \cup {key}
  /\ \A k \in (DOMAIN old) \ {key} : new[k] = old[k]

\* d.get(k, {})
Get(d, k) == IF k \in DOMAIN d THEN d[k] ELSE EmptyDict

\* the step sets market_data[kind][c] to v and changes no other entry
SetsEntry(kind, c, v) ==
  /\ SameExcept(market_data', market_data, kind)
  /\ SameExcept(market_data'[kind], Get(market_data, kind), c)
  /\ market_data'[kind][c] = v

\* the step sets market_data["kline"][c][i] to v and changes no other entry
SetsKline(c, i, v) ==
  /\ SameExcept(market_data', market_data, "kline")
  /\ SameExcept(market_data'["kline"], Get(market_data, "kline"), c)
  /\ SameExcept(market_data'["kline"][c], Get(Get(market_data, "kline"), c), i)
  /\ market_data'["kline"][c][i] = v

\* C12: a ticker or depth push for contract c sets market_data["ticker"][c] or
\* market_data["depth"][c] to the pushed data, a K-line push for contract c
\* and interval i sets market_data["kline"][c][i], a ticker push carrying a
\* list stores the first element only, and no other entry of market_data
\* changes.
C12_OnlyKeyedEntry ==
  [][ /\ \A message \in TickerPushes : handle_ticker_update(message) =>
           IF NoTickerContract(message) THEN market_data' = market_data
           ELSE SetsEntry("ticker", message.data.items[1].contractId, message.data.items[1])
      /\ \A message \in KlinePushes : handle_kline_update(message) =>
           IF NoContract(message) \/ message.data.items[1].interval = ""
             THEN market_data' = market_data
           ELSE SetsKline(message.data.items[1].contractId, message.data.items[1].interval,
                          message.data.items[1])
      /\ \A message \in DepthPushes : handle_depth_update(message) =>
           IF NoContract(message) THEN market_data' = market_data
           ELSE SetsEntry("depth", message.data.items[1].contractId, message.data.items[1]) ]_vars

\* pushes of all kinds were stored: tickers of both contracts (one replaced by
\* a later price), both intervals of a contract's K-line, and a depth
C12_Witness ==
  /\ DOMAIN market_data = {"ticker", "kline", "depth"}
  /\ DOMAIN market_data["ticker"] = {"c1", "c2"}
  /\ market_data["ticker"]["c1"] = Quote("c1", "", "p2")
  /\ "c1" \in DOMAIN market_data["kline"]
  /\ DOMAIN market_data["kline"]["c1"] = {"1m", "5m"}
  /\ "c2" \in DOMAIN market_data["depth"]

Connects == {"connect_public", "connect_private"}

\* the calls of the run before its call number k
Before(a, k) == { a[j] : j \in 1..(k - 1) }

\* the call that raised in the last run of initialize_websocket, by the error
\* the run logged ({} when it logged none)
RaisedInRun ==
  { c \in Range(WsCalls) :
      LogEntry("Failed to initialize WebSocket", SdkError(c)) \in Range(main.log) }

\* C13: in initialize_websocket connect_public comes before connect_private,
\* every subscribe comes after both connects returned, and a call that raises
\* is the last one attempted, the run then returning False.
C13_ConnectBeforeSubscribe ==
  (main.op = "initialize" /\ Idle /\ wsrun # NoWsRun) =>
    LET a == wsrun.attempted IN
    /\ \A k \in 1..Len(a) :
         /\ a[k] = "connect_private" => "connect_public" \in Before(a, k)
         /\ a[k] \notin Connects =>
              /\ Connects \subseteq Before(a, k)
              /\ Connects \cap RaisedInRun = {}
         /\ a[k] \in RaisedInRun => k = Len(a)
         /\ a[k] \notin Before(a, k)
    /\ wsrun.ok = "False" <=> RaisedInRun # {}
    /\ RaisedInRun \subseteq Range(a)
    /\ ws = Range(a) \ RaisedInRun
    /\ wsrun.ok = "True" => ws = Range(WsCalls)

\* subscribe_order_update raised: both connects and the account subscription
\* were made before it, nothing after it, and initialize_websocket returned
\* False
C13_Witness ==
  /\ Idle /\ main.op = "initialize"
  /\ wsrun.ok = "False" /\ Last(wsrun.attempted) = "subscribe_order_update"
  /\ ws = {"connect_public", "connect_private", "subscribe_account_update"}

\* main() is over
MainEnded == prog.pc \in {"returned", "raised"}
\* initialize_websocket called connect_public (its first call) in this run
ConnectAttempted == wsrun.attempted # << >>

\* C14: once a WebSocket connect was attempted, main() goes on to call
\* disconnect_all (in trader.close()) before it ends, also when get_k_line or
\* get_order_book_depth raises; main() ends without calling it only when
\* initialize returned False, and then no connect was ever attempted.
C14_DisconnectBeforeReturn ==
  /\ [](MainEnded /\ ~prog.closed =>
          /\ prog.pc = "returned"
          /\ main.op = "initialize" /\ main.ret.kind = "False"
          /\ ~ConnectAttempted /\ ws = {})
  /\ [](prog.closed => MainEnded)
  /\ [](prog.pc \in {"get_k_line", "get_order_book_depth", "sleep"} => ~prog.closed)
  /\ (ConnectAttempted ~> (MainEnded /\ prog.closed))

\* the connects were made, get_k_line raised, and main() ended by that
\* exception after calling disconnect_all
C14_Witness ==
  /\ prog.pc = "raised" /\ prog.closed
  /\ main.op = "get_k_line" /\ main.ret.kind = "raise"
  /\ ConnectAttempted

\* the response carries a map that the loop of update_active_orders builds
\* to its end
Builds(out) ==
  /\ ~out.raised /\ out.resp.data.tag \in {"absent", "dict"}
  /\ NotADict \notin Range(out.resp.data.list)

\* C15: whatever tasks run update_active_orders concurrently, a run leaves
\* active_orders either as it was or as the complete map built from the one
\* response it received: never partly filled.
C15_WholeMapOrPrevious ==
  [][ \A out \in ActiveOrdersOutcomes : RefreshedWith(out) =>
        \/ active_orders' = active_orders
        \/ Builds(out) /\ ExactlyKeyed(active_orders', out.resp.data.list, "orderId") ]_vars

\* initialize ends in this step, returning False
InitializeFalse == main'.pc = "-" /\ main'.ret.kind = "False"

\* initialize returns False exactly for a call of the three that raised (or,
\* with `extraction`, whose response the extraction raised on), and True
\* otherwise, whatever the refresh and initialize_websocket did
InitializeResult(extraction) ==
  /\ Awaiting("initialize", "get_metadata") =>
       \A out \in ContractListOutcomes : initialize_metadata(out) =>
         (InitializeFalse <=> (out.raised \/ (extraction /\ ListFails(out, NotADictC))))
  /\ Awaiting("initialize", "get_account_asset") =>
       \A out \in Outcomes("get_account_asset", AssetResps) : initialize_assets(out) =>
         (InitializeFalse <=> out.raised)
  /\ Awaiting("initialize", "get_account_positions") =>
       \A out \in PositionListOutcomes : initialize_positions(out) =>
         (InitializeFalse <=> (out.raised \/ (extraction /\ ListFails(out, NotADictC))))
  /\ Awaiting("initialize", "get_active_orders") =>
       /\ main'.pc = "-" /\ main'.ret.kind = "True"
       /\ wsrun'.ok \in {"True", "False"}
       /\ wsrun'.ok = "False" => ws' # Range(WsCalls)
  /\ (main'.op = "initialize" /\ main'.pc = "-" /\ main'.ret.kind = "True") =>
       main'.trace = << "get_metadata", "get_account_asset", "get_account_positions",
                        "get_active_orders" >>

\* C16 (as stated): initialize returns True exactly when get_metadata,
\* get_account_asset and get_account_positions completed without raising.
C16_TrueIffCallsCompleted == [][ InitializeResult(FALSE) ]_vars

\* C16 (amended): initialize returns True exactly when the three calls
\* completed without raising and the extraction of contractList and
\* positionList from their responses raised nothing; a failure of the refresh
\* or of initialize_websocket does not change the result.
C16_TrueIffNothingRaised == [][ InitializeResult(TRUE) ]_vars

\* initialize returned True although the refresh failed and the first
\* connect raised: no subscription is in place
C16_Witness ==
  /\ Idle /\ main.op = "initialize" /\ main.ret.kind = "True"
  /\ wsrun.ok = "False" /\ ws = {}
  /\ \E i \in 1..Len(main.log) : main.log[i].msg = "Failed to update active orders"

====
